---- MODULE Spec2Model ----
(***************************************************************************)
(* cvi42py: extraction of contour geometry from a cvi42 XML document.      *)
(*                                                                         *)
(* The DOM tree that minidom.parse returns is modelled as the sequence of  *)
(* its nodes in document (pre-)order, each with its depth; node 1 is the   *)
(* Document node.  parse_contours is a pure function of a subtree and is   *)
(* an operator; traverse_node and parse_file are a state machine with an   *)
(* explicit call stack.                                                    *)
(***************************************************************************)
EXTENDS Integers, Sequences, FiniteSets

VARIABLES
    tree,          \* the DOM tree (read only)
    pc,            \* position of the running function
    stack,         \* traverse_node frames: the local `child` of each call
    work,          \* pending <<image child, Contours child>> of lines 64-67
    uid_contours,  \* the catalog: uid -> (contour name -> points)
    opened,        \* the output file has been opened for writing
    dumped,        \* what pickle.dump wrote: <<>> or <<catalog>>
    visited,       \* history: nodes the line-63 test was applied to
    parsed,        \* history: <<image child, Contours node>> given to parse_contours
    ret            \* what a direct call of parse_contours returned

vars == <<tree, pc, stack, work, uid_contours, opened, dumped, visited, parsed, ret>>

(***************************************************************************)
(* Bounds of the checked inputs.                                           *)
(***************************************************************************)
MaxRegions == 2    \* subtrees under the root element of a document
MaxPoints == 2     \* point records under one "Points" node
MaxCoord == 2      \* distinct raw coordinate values
MaxSub == 2        \* SubpixelResolution values 1..MaxSub

(***************************************************************************)
(* The DOM.                                                                *)
(***************************************************************************)
None == 0
Dom == 1

Node(d, kind, tag, key, data) ==
    [d |-> d, kind |-> kind, tag |-> tag, key |-> key, data |-> data]

DocumentNode == <<Node(0, "doc", "#document", "", <<>>)>>

\* The last node of the subtree rooted at n.
SubtreeEnd(t, n) ==
    CHOOSE j \in n..Len(t) :
        /\ \A k \in (n+1)..j : t[k].d > t[n].d
        /\ j = Len(t) \/ t[j+1].d <= t[n].d

\* node.childNodes, in document order.
childNodes(t, n) ==
    LET last == SubtreeEnd(t, n)
        below == [i \in 1..(last - n) |-> n + i]
    IN  SelectSeq(below, LAMBDA j : t[j].d = t[n].d + 1)

firstChild(t, n) ==
    IF n < Len(t) /\ t[n+1].d = t[n].d + 1 THEN n + 1 ELSE None

nextSibling(t, n) ==
    LET nxt == SubtreeEnd(t, n) + 1
    IN  IF nxt <= Len(t) /\ t[nxt].d = t[n].d THEN nxt ELSE None

IsElement(t, n) == t[n].kind = "elem"

\* element.getAttribute("Hash:key"): "" when the attribute is absent.
getAttribute(t, n) == t[n].key

\* element.getElementsByTagName(tag): the descendants with that tag, in
\* document order.
getElementsByTagName(t, n, tag) ==
    LET last == SubtreeEnd(t, n)
        below == [i \in 1..(last - n) |-> n + i]
    IN  SelectSeq(below, LAMBDA j : t[j].kind = "elem" /\ t[j].tag = tag)

keep_element_nodes(t, nodes) == SelectSeq(nodes, LAMBDA j : IsElement(t, j))

(***************************************************************************)
(* Numbers.  A text payload is its sequence of decimal digits; float() and *)
(* int() read it.  A quotient is kept exact, as a fraction in lowest terms.*)
(***************************************************************************)
RECURSIVE ParseDigits(_, _)
ParseDigits(data, acc) ==
    IF data = <<>> THEN acc
    ELSE ParseDigits(Tail(data), 10 * acc + Head(data))

IsNumeral(data) == data # <<>> /\ \A i \in 1..Len(data) : data[i] \in 0..9

RECURSIVE GCD(_, _)
GCD(a, b) == IF b = 0 THEN a ELSE GCD(b, a % b)

\* x / sub of two numbers, real valued.
TrueDivFloor(x, sub) == [n |-> x \div sub, d |-> 1]

TrueDiv(x, sub) ==
    LET g == GCD(x, sub) IN [n |-> x \div g, d |-> sub \div g]

(***************************************************************************)
(* parse_contours (lines 32-51).  A call either returns a value or raises; *)
(* an exception is not caught anywhere in the program.                     *)
(***************************************************************************)
EmptyMap == [k \in {} |-> <<>>]

Return(v) == [ok |-> TRUE, val |-> v]
Raise == [ok |-> FALSE, val |-> <<>>]

\* float(child3.getElementsByTagName(tag)[0].firstChild.data), lines 41-42:
\* IndexError without such a descendant, AttributeError when the first one
\* has no child or a child that is no text node, ValueError on a payload
\* that is no numeral.
ReadCoord(t, child3, tag) ==
    LET els == getElementsByTagName(t, child3, tag)
    IN  IF els = <<>> THEN Raise
        ELSE LET fc == firstChild(t, els[1])
             IN  IF fc = None THEN Raise
                 ELSE IF t[fc].kind # "text" THEN Raise
                 ELSE IF ~IsNumeral(t[fc].data) THEN Raise
                 ELSE Return(ParseDigits(t[fc].data, 0))

\* int(child2.firstChild.data), line 46.
ReadSub(t, child2) ==
    LET fc == firstChild(t, child2)
    IN  IF fc = None THEN Raise
        ELSE IF t[fc].kind # "text" THEN Raise
        ELSE IF ~IsNumeral(t[fc].data) THEN Raise
        ELSE Return(ParseDigits(t[fc].data, 0))

\* The loop of lines 40-43 over the point records recs[i..], appending to
\* points.
RECURSIVE ReadPoints(_, _, _, _)
ReadPoints(t, recs, i, points) ==
    IF i > Len(recs) THEN Return(points)
    ELSE LET x == ReadCoord(t, recs[i], "Point:x")
             y == ReadCoord(t, recs[i], "Point:y")
         IN  IF ~x.ok \/ ~y.ok THEN Raise
             ELSE ReadPoints(t, recs, i + 1, Append(points, <<x.val, y.val>>))

\* np.array(points) / sub, line 48.
Scale(points, sub) ==
    [i \in 1..Len(points) |->
        <<TrueDiv(points[i][1], sub), TrueDiv(points[i][2], sub)>>]

\* The loop of lines 38-46 over the children kids[i..] of one contour,
\* from the state st = [sub, points] of the two locals.
RECURSIVE ScanContourEarly(_, _, _, _)
ScanContourEarly(t, kids, i, st) ==
    IF i > Len(kids) THEN Return(st)
    ELSE LET key == getAttribute(t, kids[i])
         IN  IF key = "Points"
             THEN LET r == ReadPoints(t, keep_element_nodes(t, childNodes(t, kids[i])),
                                      1, st.points)
                  IN  IF ~r.ok THEN Raise
                      ELSE ScanContourEarly(t, kids, i + 1, [st EXCEPT !.points = r.val])
             ELSE IF key = "SubpixelResolution"
             THEN LET r == ReadSub(t, kids[i])
                  IN  IF ~r.ok THEN Raise
                      ELSE ScanContourEarly(t, kids, i + 1,
                               IF st.points = <<>> THEN [st EXCEPT !.sub = r.val] ELSE st)
             ELSE ScanContourEarly(t, kids, i + 1, st)

RECURSIVE ScanContour(_, _, _, _)
ScanContour(t, kids, i, st) ==
    IF i > Len(kids) THEN Return(st)
    ELSE LET key == getAttribute(t, kids[i])
         IN  IF key = "Points"
             THEN LET r == ReadPoints(t, keep_element_nodes(t, childNodes(t, kids[i])),
                                      1, st.points)
                  IN  IF ~r.ok THEN Raise
                      ELSE ScanContour(t, kids, i + 1, [st EXCEPT !.points = r.val])
             ELSE IF key = "SubpixelResolution"
             THEN LET r == ReadSub(t, kids[i])
                  IN  IF ~r.ok THEN Raise
                      ELSE ScanContour(t, kids, i + 1, [st EXCEPT !.sub = r.val])
             ELSE ScanContour(t, kids, i + 1, st)

\* contours[contour_name] = points, line 49.
StoreContourExtend(contours, name, points) ==
    [k \in DOMAIN contours \cup {name} |->
        IF k = name
        THEN (IF name \in DOMAIN contours THEN contours[name] ELSE <<>>) \o points
        ELSE contours[k]]

StoreContour(contours, name, points) ==
    [k \in DOMAIN contours \cup {name} |->
        IF k = name THEN points ELSE contours[k]]

\* The loop of lines 33-49 over the contour children[i..] of a Contours node.
RECURSIVE ParseLoop(_, _, _, _)
ParseLoop(t, children, i, contours) ==
    IF i > Len(children) THEN Return(contours)
    ELSE LET child == children[i]
             st == ScanContour(t, keep_element_nodes(t, childNodes(t, child)), 1,
                               [sub |-> 1, points |-> <<>>])
         IN  IF ~st.ok THEN Raise
             ELSE ParseLoop(t, children, i + 1,
                      StoreContour(contours, getAttribute(t, child),
                                   Scale(st.val.points, st.val.sub)))

parse_contours(t, node) ==
    ParseLoop(t, keep_element_nodes(t, childNodes(t, node)), 1, EmptyMap)

(***************************************************************************)
(* Documents.  A subtree is written as the sequence of its nodes, built at *)
(* depth d in the cvi42 layout: <Hash:item Hash:key="...">, point records  *)
(* <List:item><Point:x>5</Point:x><Point:y>7</Point:y></List:item>.        *)
(***************************************************************************)
RECURSIVE ToDigits(_)
ToDigits(n) == IF n < 10 THEN <<n>> ELSE Append(ToDigits(n \div 10), n % 10)

RECURSIVE Flatten(_)
Flatten(ss) == IF ss = <<>> THEN <<>> ELSE Head(ss) \o Flatten(Tail(ss))

Elem(d, key) == <<Node(d, "elem", "Hash:item", key, <<>>)>>
Text(d, data) == <<Node(d, "text", "#text", "", data)>>
Whitespace(d) == Text(d, <<32>>)

\* A coordinate element: c > 0 its value, c = 0 no element, c < 0 an
\* element without text.
CoordElem(d, tag, c) ==
    IF c = 0 THEN <<>>
    ELSE <<Node(d, "elem", tag, "", <<>>)>> \o (IF c > 0 THEN Text(d + 1, ToDigits(c)) ELSE <<>>)

\* A point record r = [x, y, deep]; deep puts the coordinates one level
\* further down.
PointRecord(d, r) ==
    <<Node(d, "elem", "List:item", "", <<>>)>>
    \o (IF r.deep
        THEN <<Node(d + 1, "elem", "Point:item", "", <<>>)>>
             \o CoordElem(d + 2, "Point:x", r.x) \o CoordElem(d + 2, "Point:y", r.y)
        ELSE CoordElem(d + 1, "Point:x", r.x) \o CoordElem(d + 1, "Point:y", r.y))

\* One child of a contour: k = "P" a Points node with the records recs,
\* "S" a SubpixelResolution of s (s = 0: without text), "O" an element of
\* another key, "W" a whitespace text node.
KidP(recs) == [k |-> "P", recs |-> recs, s |-> 0]
KidS(s) == [k |-> "S", recs |-> <<>>, s |-> s]
KidO == [k |-> "O", recs |-> <<>>, s |-> 0]
KidW == [k |-> "W", recs |-> <<>>, s |-> 0]

ContourKid(d, kid) ==
    IF kid.k = "P"
    THEN Elem(d, "Points")
         \o Flatten([i \in 1..Len(kid.recs) |-> PointRecord(d + 1, kid.recs[i])])
    ELSE IF kid.k = "S"
    THEN Elem(d, "SubpixelResolution")
         \o (IF kid.s > 0 THEN Text(d + 1, ToDigits(kid.s)) ELSE <<>>)
    ELSE IF kid.k = "O" THEN Elem(d, "IsManuallyDrawn") \o Text(d + 1, <<1>>)
    ELSE Whitespace(d)

\* A contour c = [name, kids], and a Contours node of the contours cs.
ContourTree(d, c) ==
    Elem(d, c.name) \o Flatten([i \in 1..Len(c.kids) |-> ContourKid(d + 1, c.kids[i])])

ContoursTree(d, cs) ==
    Elem(d, "Contours") \o Flatten([i \in 1..Len(cs) |-> ContourTree(d + 1, cs[i])])

Rec(x, y) == [x |-> x, y |-> y, deep |-> FALSE]

\* Raw coordinates: the points (5k, 5k+2).
GoodRecs == {Rec(5 * k, 5 * k + 2) : k \in 1..MaxCoord}
DeepRecs == {[x |-> 5, y |-> 7, deep |-> TRUE]}
BadRecs == {Rec(0, 7), Rec(5, 0), Rec(-1, 7), Rec(5, -1)}

WellFormedLists(max) == UNION {[1..n -> GoodRecs \cup DeepRecs] : n \in 0..max}

\* The records of a Points node: up to MaxPoints, at most one of them
\* malformed, first or last.
RecLists ==
    WellFormedLists(MaxPoints)
    \cup {<<bad>> \o recs : bad \in BadRecs, recs \in WellFormedLists(MaxPoints - 1)}
    \cup {recs \o <<bad>> : bad \in BadRecs, recs \in WellFormedLists(MaxPoints - 1)}

\* The children of a contour, for the points recs.
KidLists(recs) ==
    {<<KidP(recs)>>, <<KidO, KidP(recs)>>,
     <<KidW, KidP(recs), KidW, KidS(MaxSub), KidW>>}
    \cup {<<KidP(recs), KidS(s)>> : s \in 0..MaxSub}
    \cup {<<KidS(s), KidP(recs)>> : s \in 0..MaxSub}

ManyKids ==
    {<<>>, <<KidS(MaxSub)>>,
     <<KidP(<<Rec(5, 7)>>), KidP(<<Rec(10, 12)>>)>>,
     <<KidS(1), KidP(<<Rec(5, 7)>>), KidS(MaxSub)>>,
     <<KidP(<<Rec(10, 20), Rec(30, 40)>>), KidS(2)>>,
     <<KidP(<<Rec(7, 9)>>)>>}

RichKids == ManyKids \cup UNION {KidLists(recs) : recs \in RecLists}

FirstKids ==
    {<<>>, <<KidP(<<Rec(10, 12)>>)>>, <<KidP(<<Rec(5, 7), Rec(10, 12)>>), KidS(MaxSub)>>,
     <<KidP(<<Rec(5, 0)>>)>>}

Names == {"a", "b"}

ContourLists ==
    {<<>>}
    \cup {<<[name |-> n, kids |-> k]>> : n \in Names, k \in RichKids}
    \cup {<<[name |-> "a", kids |-> k1], [name |-> n2, kids |-> k2]>> :
            k1 \in FirstKids, n2 \in Names, k2 \in RichKids}

ContoursDocs == {DocumentNode \o ContoursTree(1, cs) : cs \in ContourLists}

(***************************************************************************)
(* A direct call parse_contours(node) on the Contours node of a document.  *)
(***************************************************************************)
ContoursNode == 2

InitPC ==
    /\ tree \in ContoursDocs
    /\ pc = "pc_call"
    /\ stack = <<>>
    /\ work = <<>>
    /\ uid_contours = EmptyMap
    /\ opened = FALSE
    /\ dumped = <<>>
    /\ visited = <<>>
    /\ parsed = <<>>
    /\ ret = EmptyMap

PCReturn ==
    /\ pc = "pc_call"
    /\ parse_contours(tree, ContoursNode).ok
    /\ ret' = parse_contours(tree, ContoursNode).val
    /\ pc' = "pc_returned"
    /\ UNCHANGED <<tree, stack, work, uid_contours, opened, dumped, visited, parsed>>

PCRaise ==
    /\ pc = "pc_call"
    /\ ~parse_contours(tree, ContoursNode).ok
    /\ pc' = "pc_raised"
    /\ UNCHANGED <<tree, stack, work, uid_contours, opened, dumped, visited, parsed, ret>>

NextPC == PCReturn \/ PCRaise

SpecPC == InitPC /\ [][NextPC]_vars

(***************************************************************************)
(* What a returned ContourSet is compared with, read off the document.     *)
(***************************************************************************)
ContourChildren(t) == keep_element_nodes(t, childNodes(t, ContoursNode))

KeyedKids(t, c, key) ==
    SelectSeq(keep_element_nodes(t, childNodes(t, c)), LAMBDA j : t[j].key = key)

\* The point records of a contour, in document order.
RecordsOf(t, c) ==
    LET ps == KeyedKids(t, c, "Points")
    IN  Flatten([i \in 1..Len(ps) |-> keep_element_nodes(t, childNodes(t, ps[i]))])

RawCoord(t, rec, tag) ==
    ParseDigits(t[firstChild(t, getElementsByTagName(t, rec, tag)[1])].data, 0)

\* The SubpixelResolution of a contour, 1 without one.
SubOf(t, c) ==
    LET ss == KeyedKids(t, c, "SubpixelResolution")
    IN  IF ss = <<>> THEN 1 ELSE ParseDigits(t[firstChild(t, ss[Len(ss)])].data, 0)

\* q is the real number x / s.
IsQuotient(q, x, s) == q.d > 0 /\ q.n * s = x * q.d

\* pts is the point sequence of contour c: as many points as records, the
\* i-th one the i-th record divided by the resolution.
IsContourOf(t, c, pts) ==
    LET recs == RecordsOf(t, c)
    IN  /\ Len(pts) = Len(recs)
        /\ \A i \in 1..Len(recs) :
              /\ IsQuotient(pts[i][1], RawCoord(t, recs[i], "Point:x"), SubOf(t, c))
              /\ IsQuotient(pts[i][2], RawCoord(t, recs[i], "Point:y"), SubOf(t, c))

\* c is the last contour child of its name.
LastOfName(t, c) ==
    \A i \in 1..Len(ContourChildren(t)) :
        LET o == ContourChildren(t)[i] IN t[o].key = t[c].key => o <= c

ExampleScaled == DocumentNode \o ContoursTree(1,
    <<[name |-> "a", kids |-> <<KidP(<<Rec(10, 20), Rec(30, 40)>>), KidS(2)>>]>>)
ExampleDefault == DocumentNode \o ContoursTree(1,
    <<[name |-> "a", kids |-> <<KidP(<<Rec(7, 9)>>)>>]>>)
Q(n, d) == [n |-> n, d |-> d]

SwapSubtrees(t, a, b) ==
    LET ae == SubtreeEnd(t, a)
        be == SubtreeEnd(t, b)
    IN  SubSeq(t, 1, a - 1) \o SubSeq(t, b, be) \o SubSeq(t, ae + 1, b - 1)
        \o SubSeq(t, a, ae) \o SubSeq(t, be + 1, Len(t))

\* The contours that have one Points and one SubpixelResolution child.
OnePointsOneSub(t) ==
    {c \in {ContourChildren(t)[i] : i \in 1..Len(ContourChildren(t))} :
        Len(KeyedKids(t, c, "Points")) = 1 /\ Len(KeyedKids(t, c, "SubpixelResolution")) = 1}

SwappedDoc(t, c) ==
    LET p == KeyedKids(t, c, "Points")[1]
        s == KeyedKids(t, c, "SubpixelResolution")[1]
    IN  IF p < s THEN SwapSubtrees(t, p, s) ELSE SwapSubtrees(t, s, p)

\* C6: the outcome of parse_contours is the same when, in a contour, the
\* SubpixelResolution child and the Points child change places.
C6_ResolutionOrderIrrelevant ==
    pc \in {"pc_returned", "pc_raised"} =>
        \A c \in OnePointsOneSub(tree) :
            LET swapped == parse_contours(SwappedDoc(tree, c), ContoursNode)
            IN  /\ swapped.ok = (pc = "pc_returned")
                /\ swapped.ok => swapped.val = ret

\* Points read before a resolution of 2 have been returned.
C6_Witness ==
    /\ pc = "pc_returned"
    /\ \E c \in OnePointsOneSub(tree) :
          /\ KeyedKids(tree, c, "Points")[1] < KeyedKids(tree, c, "SubpixelResolution")[1]
          /\ SubOf(tree, c) = 2
          /\ LastOfName(tree, c)
          /\ Len(ret[tree[c].key]) > 0

\* The contour children of one name, in document order.
NamedChildren(t, name) ==
    SelectSeq(ContourChildren(t), LAMBDA j : t[j].key = name)

\* C7: the returned ContourSet has the names of the contour children, and a
\* name that occurs more than once holds the points of its last occurrence
\* only, also when that one has no points.
C7_LastContourOfNameWins ==
    pc = "pc_returned" =>
        /\ DOMAIN ret = {tree[ContourChildren(tree)[i]].key :
                            i \in 1..Len(ContourChildren(tree))}
        /\ \A name \in DOMAIN ret :
              LET cs == NamedChildren(tree, name)
              IN  Len(cs) > 1 =>
                     /\ Len(ret[name]) = Len(RecordsOf(tree, cs[Len(cs)]))
                     /\ IsContourOf(tree, cs[Len(cs)], ret[name])

\* A name occurred twice, first with points and last without.
C7_Witness ==
    /\ pc = "pc_returned"
    /\ \E name \in DOMAIN ret :
          LET cs == NamedChildren(tree, name)
          IN  /\ Len(cs) = 2
              /\ Len(RecordsOf(tree, cs[1])) > 0
              /\ Len(RecordsOf(tree, cs[2])) = 0
              /\ ret[name] = <<>>

(***************************************************************************)
(* Documents for parse_file: a root element with up to MaxRegions          *)
(* subtrees.                                                               *)
(***************************************************************************)
Contour(name, kids) == [name |-> name, kids |-> kids]

CvNone == <<>>
CvA0 == <<Contour("a", <<>>)>>
CvA1 == <<Contour("a", <<KidP(<<Rec(5, 7)>>)>>)>>
CvB2 == <<Contour("b", <<KidP(<<Rec(10, 12)>>), KidS(2)>>)>>
CvA0B1 == <<Contour("a", <<KidS(2)>>), Contour("b", <<KidP(<<Rec(5, 7)>>)>>)>>
CvNoY == <<Contour("a", <<KidP(<<Rec(5, 7), Rec(5, 0)>>)>>)>>
CvNoText == <<Contour("b", <<KidP(<<Rec(-1, 7)>>), KidS(2)>>)>>

\* An image child with the Contours nodes cvs, and an ImageStates node.
ImageTree(d, uid, cvs) ==
    Elem(d, uid) \o Flatten([i \in 1..Len(cvs) |-> ContoursTree(d + 1, cvs[i])])

ImageStatesTree(d, images) == Elem(d, "ImageStates") \o Flatten(images)

OneImage(d, uid, cv) == ImageStatesTree(d, <<ImageTree(d + 1, uid, <<cv>>)>>)

\* The subtrees a document is put together from, as children of its root
\* element.
Regions ==
    {OneImage(2, "u1", cv) : cv \in {CvNone, CvA0, CvA1, CvB2, CvNoY, CvNoText}}
    \cup {OneImage(2, "u2", CvA1),
          Elem(2, "Info") \o ImageTree(3, "u1", <<CvNoText>>),
          Elem(2, "ImageState") \o ImageTree(3, "u2", <<CvA1>>),
          ImageStatesTree(2, <<ImageTree(3, "u1", <<CvA1>>), ImageTree(3, "u1", <<CvB2>>)>>),
          ImageStatesTree(2, <<ImageTree(3, "u1", <<CvB2, CvA0B1, CvNone>>)>>),
          Elem(2, "Info") \o Whitespace(3)
              \o ImageStatesTree(3, <<Whitespace(4),
                                      Elem(4, "u1") \o Whitespace(5) \o Elem(5, "Info"),
                                      ImageTree(4, "u2", <<CvB2>>)>>),
          ImageStatesTree(2, <<Elem(3, "u1") \o OneImage(4, "u2", CvA1),
                               ImageTree(3, "u2", <<CvB2>>)>>)}

RootElement == <<Node(1, "elem", "Workspace", "", <<>>)>>

Documents ==
    {DocumentNode \o RootElement \o Flatten(rs) :
        rs \in UNION {[1..n -> Regions] : n \in 1..MaxRegions}}

(***************************************************************************)
(* traverse_node (lines 61-72) and parse_file (lines 82-87).               *)
(***************************************************************************)
Top == stack[Len(stack)]

\* The test of line 63.
MatchAnyElement(t, child) == IsElement(t, child)

MatchImageStates(t, child) ==
    IsElement(t, child) /\ getAttribute(t, child) = "ImageStates"

\* The pairs <<child2, child3>> that the loops of lines 64-67 give to
\* parse_contours, in order.
ContoursPairs(t, child) ==
    LET images == keep_element_nodes(t, childNodes(t, child))
        OfImage(child2) ==
            LET c3s == SelectSeq(keep_element_nodes(t, childNodes(t, child2)),
                                 LAMBDA j : getAttribute(t, j) = "Contours")
            IN  [i \in 1..Len(c3s) |-> <<child2, c3s[i]>>]
    IN  Flatten([i \in 1..Len(images) |-> OfImage(images[i])])

\* `if contours:` of line 69.
TruthyAlways(contours) == TRUE
TruthyPoints(contours) == \E k \in DOMAIN contours : contours[k] # <<>>

Truthy(contours) == DOMAIN contours # {}

\* uid_contours[uid] = contours, line 70.
StoreImageUpdate(catalog, uid, contours) ==
    [u \in DOMAIN catalog \cup {uid} |->
        IF u # uid THEN catalog[u]
        ELSE IF uid \notin DOMAIN catalog THEN contours
        ELSE [k \in DOMAIN catalog[uid] \cup DOMAIN contours |->
                 IF k \in DOMAIN contours THEN contours[k] ELSE catalog[uid][k]]]

StoreImageOnly(catalog, uid, contours) == [u \in {uid} |-> contours]

StoreImage(catalog, uid, contours) ==
    [u \in DOMAIN catalog \cup {uid} |-> IF u = uid THEN contours ELSE catalog[u]]

Init ==
    /\ tree \in Documents
    /\ pc = "start"
    /\ stack = <<>>
    /\ work = <<>>
    /\ uid_contours = EmptyMap
    /\ opened = FALSE
    /\ dumped = <<>>
    /\ visited = <<>>
    /\ parsed = <<>>
    /\ ret = EmptyMap

\* parse_file, lines 82-84: the call traverse_node(dom, {}).
ParseFile ==
    /\ pc = "start"
    /\ uid_contours' = EmptyMap
    /\ stack' = <<firstChild(tree, Dom)>>
    /\ pc' = "loop"
    /\ UNCHANGED <<tree, work, opened, dumped, visited, parsed, ret>>

\* Lines 62-67: the loop test, the match, and the Contours children found.
TestChild ==
    /\ pc = "loop"
    /\ Top # None
    /\ visited' = Append(visited, Top)
    /\ work' = IF MatchImageStates(tree, Top) THEN ContoursPairs(tree, Top) ELSE <<>>
    /\ pc' = IF work' # <<>> THEN "extract" ELSE "recurse"
    /\ UNCHANGED <<tree, stack, uid_contours, opened, dumped, parsed, ret>>

\* contours = parse_contours(child3) of line 68, for the next pair.
Extraction == parse_contours(tree, Head(work)[2])

\* Lines 68-70 for the next Contours child.  When parse_contours raises,
\* the exception leaves every frame of traverse_node and parse_file.
ExtractSkipErrors ==
    /\ pc = "extract"
    /\ parsed' = Append(parsed, Head(work))
    /\ uid_contours' =
          IF Extraction.ok /\ Truthy(Extraction.val)
          THEN StoreImage(uid_contours, getAttribute(tree, Head(work)[1]), Extraction.val)
          ELSE uid_contours
    /\ work' = Tail(work)
    /\ pc' = IF Tail(work) # <<>> THEN "extract" ELSE "recurse"
    /\ UNCHANGED <<tree, stack, opened, dumped, visited, ret>>

Extract ==
    /\ pc = "extract"
    /\ parsed' = Append(parsed, Head(work))
    /\ uid_contours' =
          IF Extraction.ok /\ Truthy(Extraction.val)
          THEN StoreImage(uid_contours, getAttribute(tree, Head(work)[1]), Extraction.val)
          ELSE uid_contours
    /\ work' = IF Extraction.ok THEN Tail(work) ELSE <<>>
    /\ stack' = IF Extraction.ok THEN stack ELSE <<>>
    /\ pc' = IF ~Extraction.ok THEN "raised"
             ELSE IF Tail(work) # <<>> THEN "extract" ELSE "recurse"
    /\ UNCHANGED <<tree, opened, dumped, visited, ret>>

\* Line 71: traverse_node(child, uid_contours), entered at line 61.
RecurseUnlessMatched ==
    /\ pc = "recurse"
    /\ stack' = Append(stack, IF MatchImageStates(tree, Top) THEN None
                              ELSE firstChild(tree, Top))
    /\ pc' = "loop"
    /\ UNCHANGED <<tree, work, uid_contours, opened, dumped, visited, parsed, ret>>

Recurse ==
    /\ pc = "recurse"
    /\ stack' = Append(stack, firstChild(tree, Top))
    /\ pc' = "loop"
    /\ UNCHANGED <<tree, work, uid_contours, opened, dumped, visited, parsed, ret>>

\* The loop ends in a nested call: back in the caller, line 72.
ReturnToCaller ==
    /\ pc = "loop"
    /\ Top = None
    /\ Len(stack) > 1
    /\ stack' = Append(SubSeq(stack, 1, Len(stack) - 2),
                       nextSibling(tree, stack[Len(stack) - 1]))
    /\ UNCHANGED <<tree, pc, work, uid_contours, opened, dumped, visited, parsed, ret>>

\* The loop ends in the call of parse_file.
ReturnToParseFile ==
    /\ pc = "loop"
    /\ Top = None
    /\ Len(stack) = 1
    /\ stack' = <<>>
    /\ pc' = "open"
    /\ UNCHANGED <<tree, work, uid_contours, opened, dumped, visited, parsed, ret>>

\* Line 86.
OpenOutput ==
    /\ pc = "open"
    /\ opened' = TRUE
    /\ pc' = "dump"
    /\ UNCHANGED <<tree, stack, work, uid_contours, dumped, visited, parsed, ret>>

\* Line 87.
Dump ==
    /\ pc = "dump"
    /\ dumped' = <<uid_contours>>
    /\ pc' = "done"
    /\ UNCHANGED <<tree, stack, work, uid_contours, opened, visited, parsed, ret>>

Next ==
    \/ ParseFile
    \/ TestChild
    \/ Extract
    \/ Recurse
    \/ ReturnToCaller
    \/ ReturnToParseFile
    \/ OpenOutput
    \/ Dump

Spec == Init /\ [][Next]_vars

(***************************************************************************)
(* What the catalog is compared with, read off the document by parent      *)
(* links.                                                                  *)
(***************************************************************************)
Nodes(t) == 1..Len(t)

\* The parent of n: the last node before n that is one level up.
Parent(t, n) ==
    LET ups == {j \in 1..(n - 1) : t[j].d = t[n].d - 1}
    IN  CHOOSE j \in ups : \A o \in ups : o <= j

\* n is a child of p: one level down, with nothing in between that leaves
\* the subtree of p.
IsChild(t, p, n) ==
    /\ n > p
    /\ t[n].d = t[p].d + 1
    /\ \A k \in (p + 1)..n : t[k].d > t[p].d

ElementChildren(t, p) == {n \in Nodes(t) : t[n].kind = "elem" /\ IsChild(t, p, n)}

Keyed(t, n, key) == t[n].kind = "elem" /\ t[n].key = key

\* <<ImageStates element, image child, Contours child>>: the Contours nodes
\* under an image child of an ImageStates element.
Triples(t) ==
    {<<Parent(t, Parent(t, c3)), Parent(t, c3), c3>> :
        c3 \in {c \in Nodes(t) : /\ Keyed(t, c, "Contours")
                                 /\ t[c].d >= 3
                                 /\ Keyed(t, Parent(t, Parent(t, c)), "ImageStates")}}

TriplesOf(t, uid) == {tr \in Triples(t) : t[tr[2]].key = uid}

\* The image children of ImageStates elements that carry the uid.
Occurrences(t, uid) ==
    {c2 \in Nodes(t) : /\ Keyed(t, c2, uid)
                       /\ t[c2].d >= 2
                       /\ Keyed(t, Parent(t, c2), "ImageStates")}

Uids(t) == {t[c2].key : c2 \in {n \in Nodes(t) : t[n].d >= 2 /\ t[n].kind = "elem"
                                                 /\ Keyed(t, Parent(t, n), "ImageStates")}}

\* The Contours node has a contour child.
HasContour(t, c3) == ElementChildren(t, c3) # {}

\* The contour has no point record.
NoPoints(t, c) ==
    \A p \in ElementChildren(t, c) : t[p].key = "Points" => ElementChildren(t, p) = {}

Returned == pc \in {"open", "dump", "done"}

\* C1: after a traversal without error the keys of the catalog are the
\* uids of the image children of ImageStates elements that have a Contours
\* child with at least one contour child (with or without points); no
\* catalog entry is ever an empty ContourSet.
C1_CatalogKeys ==
    /\ Returned =>
          DOMAIN uid_contours =
              {tree[tr[2]].key : tr \in {x \in Triples(tree) : HasContour(tree, x[3])}}
    /\ \A u \in DOMAIN uid_contours : DOMAIN uid_contours[u] # {}

\* A uid with a contour is in the catalog, and another one, whose Contours
\* node was parsed and has no contour, is not.
C1_Witness ==
    /\ pc = "done"
    /\ DOMAIN uid_contours # {}
    /\ \E u \in Uids(tree) :
          /\ u \notin DOMAIN uid_contours
          /\ \E i \in 1..Len(parsed) : tree[parsed[i][1]].key = u

\* Every contour of every Contours node of the uid has zero points.
OnlyEmptyContours(t, uid) ==
    \A tr \in TriplesOf(t, uid) : \A c \in ElementChildren(t, tr[3]) : NoPoints(t, c)

\* C2 as stated: an image whose extraction yields only empty contours is
\* absent from the final catalog.
C2_Original ==
    Returned =>
        \A uid \in Uids(tree) :
            (TriplesOf(tree, uid) # {} /\ OnlyEmptyContours(tree, uid))
                => uid \notin DOMAIN uid_contours

\* C2 amended: an image is absent from the final catalog when none of its
\* Contours nodes has a contour child; an image whose extraction yields
\* only empty contours, but at least one, is present, and its ContourSet
\* maps every name to the empty sequence.
C2_EmptyContoursKept ==
    Returned =>
        \A uid \in Uids(tree) :
            /\ (\A tr \in TriplesOf(tree, uid) : ~HasContour(tree, tr[3]))
                  => uid \notin DOMAIN uid_contours
            /\ (/\ \E tr \in TriplesOf(tree, uid) : HasContour(tree, tr[3])
                /\ OnlyEmptyContours(tree, uid))
                  => /\ uid \in DOMAIN uid_contours
                     /\ \A k \in DOMAIN uid_contours[uid] : uid_contours[uid][k] = <<>>

\* An image with one named contour and no point is in the written catalog.
C2_Witness ==
    /\ pc = "done"
    /\ \E uid \in Uids(tree) :
          /\ \E tr \in TriplesOf(tree, uid) : HasContour(tree, tr[3])
          /\ OnlyEmptyContours(tree, uid)
          /\ uid \in DOMAIN dumped[1]

\* The ContourSet of one occurrence of a uid: of its last Contours child
\* that has a contour.
ExtractionOf(t, c2) ==
    LET c3s == {c \in ElementChildren(t, c2) : t[c].key = "Contours" /\ HasContour(t, c)}
    IN  IF c3s = {} THEN EmptyMap
        ELSE parse_contours(t, CHOOSE c \in c3s : \A o \in c3s : o <= c).val

Max(S) == CHOOSE x \in S : \A y \in S : y <= x

\* The uid is an image child of more than one ImageStates element.
InSeveralRegions(t, uid) ==
    Cardinality({Parent(t, c2) : c2 \in Occurrences(t, uid)}) > 1

\* C3 as stated: the entry of a uid of several ImageStates regions is the
\* ContourSet of its occurrence that is last in document order.
C3_Original ==
    Returned =>
        \A uid \in DOMAIN uid_contours :
            InSeveralRegions(tree, uid) =>
                uid_contours[uid] = ExtractionOf(tree, Max(Occurrences(tree, uid)))

\* tr comes before or at o in the order of the traversal: ImageStates
\* elements in document order, then image children, then Contours children.
TripleLeq(tr, o) ==
    \/ tr[1] < o[1]
    \/ tr[1] = o[1] /\ tr[2] < o[2]
    \/ tr[1] = o[1] /\ tr[2] = o[2] /\ tr[3] <= o[3]

LastTriple(t, uid) ==
    LET S == {tr \in TriplesOf(t, uid) : HasContour(t, tr[3])}
    IN  CHOOSE tr \in S : \A o \in S : TripleLeq(o, tr)

\* C3 amended: the entry of a uid of several ImageStates regions is the
\* whole ContourSet of the last Contours node with a contour that the
\* traversal reaches for it, ImageStates elements taken in document order
\* and, in each, the image children and their Contours children in sibling
\* order; nothing of an earlier ContourSet remains.
C3_LastExtractionWins ==
    Returned =>
        \A uid \in DOMAIN uid_contours :
            InSeveralRegions(tree, uid) =>
                uid_contours[uid] = parse_contours(tree, LastTriple(tree, uid)[3]).val

\* A uid of two regions, with different ContourSets, holds the later one.
C3_Witness ==
    /\ pc = "done"
    /\ \E uid \in DOMAIN uid_contours :
          /\ InSeveralRegions(tree, uid)
          /\ \E tr \in TriplesOf(tree, uid) :
                /\ HasContour(tree, tr[3])
                /\ tr[1] < LastTriple(tree, uid)[1]
                /\ DOMAIN parse_contours(tree, tr[3]).val # DOMAIN uid_contours[uid]

\* Descendants of n, and the first one with a tag.
Descendants(t, n) ==
    {j \in Nodes(t) : j > n /\ \A k \in (n + 1)..j : t[k].d > t[n].d}

Tagged(t, rec, tag) == {j \in Descendants(t, rec) : t[j].kind = "elem" /\ t[j].tag = tag}

HasTextPayload(t, e) == e < Len(t) /\ t[e + 1].d = t[e].d + 1 /\ t[e + 1].kind = "text"

\* The point record has no Point:x or no Point:y descendant, or one
\* without text.
Malformed(t, rec) ==
    \E tag \in {"Point:x", "Point:y"} :
        \/ Tagged(t, rec, tag) = {}
        \/ \E e \in Tagged(t, rec, tag) :
              (\A o \in Tagged(t, rec, tag) : e <= o) /\ ~HasTextPayload(t, e)

\* The point records of the contours of a Contours node.
PointRecords(t, c3) ==
    UNION {ElementChildren(t, p) :
              p \in UNION {{k \in ElementChildren(t, c) : t[k].key = "Points"} :
                              c \in ElementChildren(t, c3)}}

MalformedReached(t) ==
    \E tr \in Triples(t) : \E rec \in PointRecords(t, tr[3]) : Malformed(t, rec)

\* The Contours node holds a malformed point record.
HoldsMalformed(t, c3) == \E rec \in PointRecords(t, c3) : Malformed(t, rec)

\* C4: with a malformed point record under a Contours node of an image
\* child of an ImageStates element, parse_file never gets past
\* traverse_node: the output file is never opened nor written, whatever is
\* in the catalog, and as soon as the Contours node with the record has
\* been given to parse_contours the program has ended with the error.
C4_MalformedAborts ==
    /\ (Returned \/ opened \/ dumped # <<>>) => ~MalformedReached(tree)
    /\ (pc # "raised" /\ parsed # <<>>) => ~HoldsMalformed(tree, parsed[Len(parsed)][2])

\* The error came after contours were put into the catalog.
C4_Witness ==
    /\ pc = "raised"
    /\ MalformedReached(tree)
    /\ uid_contours # EmptyMap
    /\ ~opened

NoImageStates(t) == \A n \in Nodes(t) : t[n].key # "ImageStates"

\* C8: on a document without any ImageStates key, the traversal passes
\* nothing to parse_contours, raises no error and leaves the catalog
\* empty, and parse_file writes the empty catalog.
C8_NoImageStatesEmpty ==
    NoImageStates(tree) =>
        /\ pc # "raised"
        /\ uid_contours = EmptyMap
        /\ parsed = <<>>
        /\ pc = "done" => dumped = <<EmptyMap>>

\* Such a document with a malformed point record under a Contours node was
\* traversed to the end.
C8_Witness ==
    /\ pc = "done"
    /\ NoImageStates(tree)
    /\ \E c3 \in Nodes(tree) :
          Keyed(tree, c3, "Contours") /\ \E rec \in PointRecords(tree, c3) : Malformed(tree, rec)
    /\ Len(visited) = Len(tree) - 1

\* A bound on the steps that are left, for the termination of C9.
PcRank ==
    [start |-> 8, extract |-> 6, recurse |-> 5, loop |-> 3, open |-> 2, dump |-> 1,
     done |-> 0, raised |-> 0]

Variant ==
    (Len(tree) + 8) * (Len(tree) - 1 - Len(visited)) + Len(work) + Len(stack) + PcRank[pc]

\* C9 as stated: whenever traverse_node has ended, it has applied the test
\* of line 63 to every node below the start node.
C9_Original ==
    (Returned \/ pc = "raised") => Len(visited) = Len(tree) - 1

\* C9 amended: traverse_node terminates on every document, by returning or
\* by the error of a malformed record: every step lowers a natural number.
\* It applies the test of line 63 to the nodes below the start node in
\* document order, each at most once, and gives no pair of image child and
\* Contours node to parse_contours twice; when it returns it has tested
\* every node exactly once and parsed the Contours children of the image
\* children of every ImageStates element, nested ones too.
C9_VisitsEveryNodeOnce ==
    /\ [][Variant' < Variant]_vars
    /\ [](/\ Variant >= 0
          /\ visited = [i \in 1..Len(visited) |-> i + 1]
          /\ \A i, j \in 1..Len(parsed) : parsed[i] = parsed[j] => i = j
          /\ Returned =>
                /\ Len(visited) = Len(tree) - 1
                /\ {parsed[i] : i \in 1..Len(parsed)}
                      = {<<tr[2], tr[3]>> : tr \in Triples(tree)})

\* An ImageStates element inside an image child of another one had its
\* Contours parsed.
C9_Witness ==
    /\ Returned
    /\ \E i \in 1..Len(parsed) :
          LET inner == Parent(tree, parsed[i][1])
          IN  \E outer \in Nodes(tree) :
                 /\ Keyed(tree, outer, "ImageStates")
                 /\ inner \in Descendants(tree, outer)
                 /\ Keyed(tree, inner, "ImageStates")

\* C10: a step never changes the document and never removes a uid; the
\* only change to the catalog is made by line 70, which sets one uid to
\* the non-empty ContourSet just returned by parse_contours and leaves
\* every other entry as it was; what is dumped is the whole catalog.
C10_Step ==
    /\ tree' = tree
    /\ DOMAIN uid_contours \subseteq DOMAIN uid_contours'
    /\ uid_contours' # uid_contours =>
          /\ pc = "extract"
          /\ LET uid == tree[Head(work)[1]].key
                 fresh == parse_contours(tree, Head(work)[2]).val
             IN  /\ DOMAIN fresh # {}
                 /\ DOMAIN uid_contours' = DOMAIN uid_contours \cup {uid}
                 /\ uid_contours'[uid] = fresh
                 /\ \A u \in DOMAIN uid_contours : u # uid => uid_contours'[u] = uid_contours[u]
    /\ dumped' # dumped => dumped' = <<uid_contours>>

C10_CatalogMonotonic == [][C10_Step]_vars

\* An entry has been replaced while another uid kept its own.
C10_Witness ==
    /\ pc = "done"
    /\ Cardinality(DOMAIN uid_contours) > 1
    /\ \E i, j \in 1..Len(parsed) :
          /\ i < j
          /\ tree[parsed[i][1]].key = tree[parsed[j][1]].key
          /\ HasContour(tree, parsed[i][2])
          /\ uid_contours[tree[parsed[j][1]].key] = parse_contours(tree, parsed[j][2]).val
          /\ parse_contours(tree, parsed[i][2]).val # parse_contours(tree, parsed[j][2]).val

====
